---- MODULE Spec2Model ----
(***************************************************************************)
(* The G Suite collector of paws-collector (collectors/gsuite/collector.js) *)
(* as a state machine: the collection state the host keeps for one poll     *)
(* target, the initialisation hook, and one invocation of pawsGetLogs       *)
(* split at its single suspension point (the utils.listEvents promise).     *)
(*                                                                          *)
(* Time is in milliseconds (the resolution of moment() and of the ISO-8601  *)
(* strings kept in the state), counted from an epoch that is a UTC          *)
(* midnight.  The process time zone is UTC.                                 *)
(***************************************************************************)
EXTENDS Integers, Sequences, FiniteSets, TLC

\* ------------------------------------------------------------------ bounds
\* The number of clock steps of one behaviour.
MaxTicks == 2
\* The longest accumulator a resolved listEvents promise carries.
MaxRecs == 1
\* The number of pawsGetLogs invocations of one behaviour.
MaxInvocations == 3
\* The largest configured page budget (paws_max_pages_per_invocation).
MaxPages == 3

\* ------------------------------------------------------- units and values
Seconds(n) == n * 1000
Minutes(n) == n * 60 * 1000
Hours(n) == n * 3600 * 1000

\* JavaScript null in a timestamp field.
NullTs == -1
\* JavaScript null and undefined in the nextPage field.
Null == "null"
Undefined == "undefined"

\* moment#diff truncates toward zero (absFloor) for 'seconds' and 'hours'.
TruncDiv(a, b) == IF a >= 0 THEN a \div b ELSE 0 - ((0 - a) \div b)
DiffSeconds(a, b) == TruncDiv(a - b, Seconds(1))
DiffHours(a, b) == TruncDiv(a - b, Hours(1))
\* moment#endOf('day') in the process time zone: 23:59:59.999 of a's day.
EndOfDay(a) == a - (a % Hours(24)) + Hours(24) - 1

\* ------------------------------------------------------- program constants
InitialPollInterval == 1
InitialDelay == 1
NextPagePollInterval == 1
CatchUpPollInterval == 1
DefaultStartMinutes == 5
DayBehindHours == 24
HourBehindHours == 1
PstOffsetHours == 8
extraBufferSeconds == 60
QuotaPollInterval == 900

\* ------------------------------------------------------------ input sets
\* The clock when the collector is constructed.
StartClock == Hours(48)
\* Durations the clock may advance by between two steps.
Steps == {500, Seconds(65), Hours(32)}
\* process.env.paws_collection_start_ts: unset (empty), or a timestamp.
NoStartTs == NullTs
\* A paws_collection_start_ts that moment() cannot parse: moment(startTs) is
\* an invalid moment, and toISOString() of an invalid moment is null.
InvalidStartTs == -2
IsValidTs(ts) == ts >= 0
StartTsChoices ==
    {NoStartTs, StartClock - Hours(30), StartClock - Hours(2), StartClock - Seconds(180),
     StartClock - Seconds(65), StartClock + Hours(1)}
\* this.pollInterval, in seconds.
PollIntervals == {60, 300}
RECURSIVE SeqsUpTo(_, _)
SeqsUpTo(S, n) ==
    IF n = 0 THEN {<<>>}
    ELSE LET shorter == SeqsUpTo(S, n - 1)
         IN  shorter \cup {Append(s, x) : s \in {t \in shorter : Len(t) = n - 1}, x \in S}
\* JSON.parse(process.env.paws_collector_param_string_2)
ApplicationLists == {<<>>, <<"login">>, <<"admin", "login">>, <<"login", "drive", "admin">>}
PageTokens == {"p1", "p2"}
Events == {"ev"}
Accumulators == SeqsUpTo(Events, MaxRecs)
\* process.env.paws_max_pages_per_invocation: unset, or a number of pages.
NoMaxPages == 0
MaxPagesChoices == {NoMaxPages} \cup (1..MaxPages)
\* The items of one page of the upstream.
PageItems == {<<>>, <<"e1">>, <<"e2", "e3">>}
\* An upstream whose number of pages and latency are left open.
NoUpstream == [pages |-> 0, latency |-> 0]
\* Upstreams that hold a fixed number of pages per window and answer a page
\* call after a fixed time.
Upstreams == [pages : {1, 2}, latency : {0, Seconds(29)}]
\* Backlogs of the live collector: the default start, two hours, thirty hours.
LiveStartTsChoices == {NoStartTs, StartClock - Hours(2), StartClock - Hours(30)}
\* The upstream of the live collector returns the same page every time.
LivePageItems == {<<"e1">>}
\* What the listEvents promise rejects with: an API error whose errors list
\* names a reason, an error with an empty errors list, an error without one.
NoError == [message |-> "", hasErrors |-> FALSE, errors |-> <<>>]
RejectErrors ==
    { [message |-> "quota", hasErrors |-> TRUE, errors |-> <<"dailyLimitExceeded">>],
      [message |-> "backend", hasErrors |-> TRUE, errors |-> <<"backendError">>],
      [message |-> "empty", hasErrors |-> TRUE, errors |-> <<>>],
      [message |-> "network", hasErrors |-> FALSE, errors |-> <<>>] }

\* ------------------------------------------------------------------ state
VARIABLES
    now,            \* the wall clock, ms
    ticks,          \* clock steps taken
    invocations,    \* pawsGetLogs invocations started
    env,            \* process.env: start_ts, applicationNames (and whether it is
                    \* JSON), max_pages
    upstream,       \* the upstream: pages per window, ms a page call takes
    pollInterval,   \* this.pollInterval, seconds
    pc,             \* "new" | "failed" | "initialised" | "ready" | "fetching"
    initialStates,  \* the states pawsInitCollectionState handed to its callback
    initialDelay,   \* the delay it handed over with them
    state,          \* the collection state the host holds and passes to pawsGetLogs
    params,         \* the params of the pending listEvents call
    calls,          \* listEvents calls issued by the current invocation
    fetch,          \* the page loop of the pending listEvents call
    cb              \* what the invocation handed to its callback

vars == <<now, ticks, invocations, env, upstream, pollInterval, pc, initialStates,
          initialDelay, state, params, calls, fetch, cb>>

NoState ==
    [application |-> "", since |-> NullTs, until |-> NullTs, nextPage |-> Null,
     apiQuotaResetDate |-> NullTs, poll_interval_sec |-> 0]
NoParams ==
    [pageToken |-> Undefined, startTime |-> NullTs, endTime |-> NullTs,
     userKey |-> "", applicationName |-> ""]
NoFetch ==
    [status |-> "idle", maxPages |-> NoMaxPages, pageToken |-> Undefined,
     accumulator |-> <<>>, pageCount |-> 0, pages |-> <<>>, nextPage |-> Undefined,
     error |-> NoError]
NoCallback ==
    [path |-> "none", error |-> NoError, logs |-> <<>>, state |-> NoState, delay |-> 0]

\* Configurations with a parsable start timestamp and application list.
ValidEnvs ==
    [start_ts : StartTsChoices, applicationNames : ApplicationLists, names_ok : {TRUE},
     max_pages : {NoMaxPages}]
\* Configurations whose start timestamp or application list may be malformed.
ConfigEnvs ==
    [start_ts : StartTsChoices \cup {InvalidStartTs},
     applicationNames : ApplicationLists, names_ok : BOOLEAN, max_pages : {NoMaxPages}]
\* One application with the default start, under every page budget.
FetchEnvs ==
    [start_ts : {NoStartTs}, applicationNames : {<<"login">>}, names_ok : {TRUE},
     max_pages : MaxPagesChoices]
\* One application, no page budget, for the collector that runs on.
LiveEnvs ==
    [start_ts : LiveStartTsChoices, applicationNames : {<<"login">>},
     names_ok : {TRUE}, max_pages : {NoMaxPages}]

\* The collector as constructed, with one of the configurations envs and one
\* of the upstreams.
InitOf(envs, upstreams) ==
    /\ now = StartClock
    /\ ticks = 0
    /\ invocations = 0
    /\ env \in envs
    /\ upstream \in upstreams
    /\ pollInterval \in PollIntervals
    /\ pc = "new"
    /\ initialStates = <<>>
    /\ initialDelay = 0
    /\ state = NoState
    /\ params = NoParams
    /\ calls = 0
    /\ fetch = NoFetch
    /\ cb = NoCallback

InitWith(envs) == InitOf(envs, {NoUpstream})

Init == InitWith(ValidEnvs)
\* The collector constructed with a configuration that may be malformed.
InitConfig == InitWith(ConfigEnvs)
\* The collector constructed with a page budget.
InitFetch == InitWith(FetchEnvs)
\* The collector constructed in front of a fixed upstream.
InitLive == InitOf(LiveEnvs, Upstreams)

\* The clock advances.
Tick(d) ==
    /\ ticks < MaxTicks
    /\ now' = now + d
    /\ ticks' = ticks + 1
    /\ UNCHANGED <<invocations, env, upstream, pollInterval, pc, initialStates, initialDelay,
                   state, params, calls, fetch, cb>>

\* ------------------------------------------------- pawsInitCollectionState
\* Mutant: the default start is now, the five minutes are not subtracted.
InitStartTs_NoOffset(e, clock) ==
    IF e.start_ts # NoStartTs THEN e.start_ts ELSE clock
\* startTs: the configured timestamp when one is set, else five minutes ago.
InitStartTs(e, clock) ==
    IF e.start_ts # NoStartTs THEN e.start_ts ELSE clock - Minutes(DefaultStartMinutes)
\* endTs: moment(startTs).add(this.pollInterval, "seconds")
InitEndTs(startTs, interval) ==
    IF IsValidTs(startTs) THEN startTs + Seconds(interval) ELSE NullTs
InitialState(application, startTs, endTs) ==
    [application |-> application, since |-> startTs, until |-> endTs,
     nextPage |-> Null, apiQuotaResetDate |-> NullTs,
     poll_interval_sec |-> InitialPollInterval]
\* applicationNames.map(...)
InitialStates(e, clock, interval) ==
    LET startTs == InitStartTs(e, clock)
        endTs == InitEndTs(startTs, interval)
    IN  [i \in 1..Len(e.applicationNames) |->
            InitialState(e.applicationNames[i], startTs, endTs)]

\* JSON.parse throws on a malformed application list: no callback is made.
PawsInitCollectionState ==
    /\ pc = "new"
    /\ IF env.names_ok
          THEN /\ initialStates' = InitialStates(env, now, pollInterval)
               /\ initialDelay' = InitialDelay
               /\ pc' = "initialised"
          ELSE /\ pc' = "failed"
               /\ UNCHANGED <<initialStates, initialDelay>>
    /\ UNCHANGED <<now, ticks, invocations, env, upstream, pollInterval, state, params, calls,
                   fetch, cb>>

\* The host takes one of the initial states as the state of its poll target.
HostSelect(i) ==
    /\ pc = "initialised"
    /\ state' = initialStates[i]
    /\ pc' = "ready"
    /\ UNCHANGED <<now, ticks, invocations, env, upstream, pollInterval, initialStates,
                   initialDelay, params, calls, fetch, cb>>

\* ------------------------------------------------ the next collection state
\* Mutant: the later of the current until and now.
NextSinceTs_Later(curState, nowMoment) ==
    IF curState.until > nowMoment THEN curState.until ELSE nowMoment
\* Mutant: always the current until.
NextSinceTs_Until(curState, nowMoment) == curState.until
\* Mutant: always now.
NextSinceTs_Now(curState, nowMoment) == nowMoment
\* nextSinceTs: now when the current until is in the future, else that until.
NextSinceTs(curState, nowMoment) ==
    IF curState.until > nowMoment THEN nowMoment ELSE curState.until
\* Mutant: the thresholds are compared with >= instead of >.
NextUntilMoment_Inclusive(nextSinceTs, nowMoment, interval) ==
    IF DiffHours(nowMoment, nextSinceTs) >= DayBehindHours
        THEN nextSinceTs + Hours(DayBehindHours)
    ELSE IF DiffHours(nowMoment, nextSinceTs) >= HourBehindHours
        THEN nextSinceTs + Hours(HourBehindHours)
    ELSE nextSinceTs + Seconds(interval)
\* Mutant: the poll interval is added without its unit, as milliseconds.
NextUntilMoment_MissingUnit(nextSinceTs, nowMoment, interval) ==
    IF DiffHours(nowMoment, nextSinceTs) > DayBehindHours
        THEN nextSinceTs + Hours(DayBehindHours)
    ELSE IF DiffHours(nowMoment, nextSinceTs) > HourBehindHours
        THEN nextSinceTs + Hours(HourBehindHours)
    ELSE nextSinceTs + interval
\* nextUntilMoment: the catch-up width by the whole hours collection is behind.
\* With an invalid nextSinceTs both diffs are NaN and the sum is invalid.
NextUntilMoment(nextSinceTs, nowMoment, interval) ==
    IF ~IsValidTs(nextSinceTs) THEN NullTs
    ELSE IF DiffHours(nowMoment, nextSinceTs) > DayBehindHours
        THEN nextSinceTs + Hours(DayBehindHours)
    ELSE IF DiffHours(nowMoment, nextSinceTs) > HourBehindHours
        THEN nextSinceTs + Hours(HourBehindHours)
    ELSE nextSinceTs + Seconds(interval)
\* Mutant: the configured poll interval is never handed back.
NextPollInterval_CatchUp(nextUntilMoment, nowMoment, interval) ==
    CatchUpPollInterval
\* Mutant: the lag is compared with >= instead of >.
NextPollInterval_Inclusive(nextUntilMoment, nowMoment, interval) ==
    IF DiffSeconds(nowMoment, nextUntilMoment) >= interval
        THEN CatchUpPollInterval
        ELSE interval
\* nextPollInterval: one second when behind schedule, else the poll interval.
\* With an invalid nextUntilMoment the diff is NaN and the comparison false.
NextPollInterval(nextUntilMoment, nowMoment, interval) ==
    IF IsValidTs(nextUntilMoment) /\ DiffSeconds(nowMoment, nextUntilMoment) > interval
        THEN CatchUpPollInterval
        ELSE interval
\* Mutant: the quota reset date of the input state is carried over.
_getNextCollectionState_KeepsQuota(curState, nowMoment, interval) ==
    LET nextSinceTs == NextSinceTs(curState, nowMoment)
        nextUntilMoment == NextUntilMoment(nextSinceTs, nowMoment, interval)
    IN  [application |-> curState.application,
         since |-> nextSinceTs,
         until |-> nextUntilMoment,
         nextPage |-> Undefined,
         apiQuotaResetDate |-> curState.apiQuotaResetDate,
         poll_interval_sec |-> NextPollInterval(nextUntilMoment, nowMoment, interval)]
\* The object it returns has no nextPage key.
_getNextCollectionState(curState, nowMoment, interval) ==
    LET nextSinceTs == NextSinceTs(curState, nowMoment)
        nextUntilMoment == NextUntilMoment(nextSinceTs, nowMoment, interval)
    IN  [application |-> curState.application,
         since |-> nextSinceTs,
         until |-> nextUntilMoment,
         nextPage |-> Undefined,
         apiQuotaResetDate |-> NullTs,
         poll_interval_sec |-> NextPollInterval(nextUntilMoment, nowMoment, interval)]

\* Mutant: the window is moved on although pages are pending.
WithNextPage_MovesWindow(curState, nextPage) ==
    [application |-> curState.application,
     since |-> curState.until,
     until |-> curState.until + Hours(HourBehindHours),
     nextPage |-> nextPage,
     apiQuotaResetDate |-> NullTs,
     poll_interval_sec |-> NextPagePollInterval]
\* Mutant: the quota reset date of the input state is carried over.
WithNextPage_KeepsQuota(curState, nextPage) ==
    [curState EXCEPT !.nextPage = nextPage, !.poll_interval_sec = NextPagePollInterval]
_getNextCollectionStateWithNextPage(curState, nextPage) ==
    [application |-> curState.application,
     since |-> curState.since,
     until |-> curState.until,
     nextPage |-> nextPage,
     apiQuotaResetDate |-> NullTs,
     poll_interval_sec |-> NextPagePollInterval]

\* ------------------------------------------------------------ pawsGetLogs
\* state.nextPage ? {pageToken: state.nextPage} : {}, then the window and target.
Truthy(nextPage) == nextPage \notin {Null, Undefined}
ListEventsParams(st) ==
    [pageToken |-> IF Truthy(st.nextPage) THEN st.nextPage ELSE Undefined,
     startTime |-> st.since,
     endTime |-> st.until,
     userKey |-> "all",
     applicationName |-> st.application]
\* Mutant: isAfter instead of isBefore.
QuotaInEffect_IsAfter(st, nowMoment) ==
    st.apiQuotaResetDate # NullTs /\ nowMoment > st.apiQuotaResetDate
\* state.apiQuotaResetDate && moment().isBefore(state.apiQuotaResetDate)
QuotaInEffect(st, nowMoment) ==
    st.apiQuotaResetDate # NullTs /\ nowMoment < st.apiQuotaResetDate

\* Mutant: the page budget is not passed on.
ListEventsCall_NoBudget(p, e) ==
    [NoFetch EXCEPT !.status = "running", !.pageToken = p.pageToken]
\* utils.listEvents(client, params, [], process.env.paws_max_pages_per_invocation)
ListEventsCall(p, e) ==
    [NoFetch EXCEPT !.status = "running", !.pageToken = p.pageToken,
                    !.maxPages = e.max_pages]

\* The synchronous part at time nowMoment: the quota check, then the
\* listEvents call.
Invoke(nowMoment) ==
    /\ IF QuotaInEffect(state, nowMoment)
          THEN /\ cb' = [path |-> "quotaInEffect", error |-> NoError, logs |-> <<>>,
                         state |-> state, delay |-> state.poll_interval_sec]
               /\ calls' = 0
               /\ pc' = "ready"
               /\ UNCHANGED <<params, fetch>>
          ELSE /\ params' = ListEventsParams(state)
               /\ calls' = 1
               /\ cb' = NoCallback
               /\ pc' = "fetching"
               /\ fetch' = ListEventsCall(params', env)
    /\ UNCHANGED <<env, upstream, pollInterval, initialStates, initialDelay, state>>

\* The host invokes pawsGetLogs with the state it holds.
PawsGetLogs ==
    /\ pc = "ready"
    /\ invocations < MaxInvocations
    /\ invocations' = invocations + 1
    /\ Invoke(now)
    /\ UNCHANGED <<now, ticks>>

\* ---------------------------------------------------------- utils.listEvents
\* The page budget: zero or unset means one page.
PageBudget(maxPages) == IF maxPages = NoMaxPages THEN 1 ELSE maxPages
\* One call of the upstream returned a page: items and, maybe, a token.
FetchedPage(f, items, token) ==
    LET count == f.pageCount + 1
        more == token # Undefined /\ count < PageBudget(f.maxPages)
    IN  [f EXCEPT !.pageCount = count,
                  !.accumulator = f.accumulator \o items,
                  !.pages = Append(f.pages, [items |-> items, token |-> token]),
                  !.pageToken = token,
                  !.status = IF more THEN "running" ELSE "resolved",
                  !.nextPage = IF more THEN Undefined ELSE token]
FetchPage(items, token) ==
    /\ pc = "fetching"
    /\ fetch.status = "running"
    /\ fetch' = FetchedPage(fetch, items, token)
    /\ UNCHANGED <<now, ticks, invocations, env, upstream, pollInterval, pc, initialStates,
                   initialDelay, state, params, calls, cb>>
\* One call of the upstream failed: what was accumulated is dropped.
FetchPageFails(error) ==
    /\ pc = "fetching"
    /\ fetch.status = "running"
    /\ fetch' = [fetch EXCEPT !.pageCount = fetch.pageCount + 1,
                              !.accumulator = <<>>,
                              !.status = "rejected",
                              !.error = error]
    /\ UNCHANGED <<now, ticks, invocations, env, upstream, pollInterval, pc, initialStates,
                   initialDelay, state, params, calls, cb>>

\* The .then handler: the promise resolved with {accumulator, nextPage}.
ListEventsResolved(accumulator, nextPage) ==
    /\ pc = "fetching"
    /\ LET newState ==
               IF nextPage = Undefined
                   THEN _getNextCollectionState(state, now, pollInterval)
                   ELSE _getNextCollectionStateWithNextPage(state, nextPage)
       IN  /\ cb' = [path |-> "then", error |-> NoError, logs |-> accumulator,
                     state |-> newState, delay |-> newState.poll_interval_sec]
           /\ state' = newState
    /\ pc' = "ready"
    /\ params' = NoParams
    /\ fetch' = NoFetch
    /\ UNCHANGED <<now, ticks, invocations, env, upstream, pollInterval, initialStates,
                   initialDelay, calls>>

\* Mutant: the buffer is left out.
ApiQuotaResetDate_NoBuffer(nowMoment) ==
    LET pstCurrentDateTime == nowMoment - Hours(PstOffsetHours)
        pstEndDateTime == EndOfDay(pstCurrentDateTime)
    IN  nowMoment + Seconds(DiffSeconds(pstEndDateTime, pstCurrentDateTime))
\* Mutant: the seconds left of the day are subtracted from now.
ApiQuotaResetDate_Subtract(nowMoment) ==
    LET pstCurrentDateTime == nowMoment - Hours(PstOffsetHours)
        pstEndDateTime == EndOfDay(pstCurrentDateTime)
    IN  nowMoment
        - Seconds(DiffSeconds(pstEndDateTime, pstCurrentDateTime) + extraBufferSeconds)
\* The quota reset date: now plus the whole seconds left of the current day
\* at UTC-8, plus the buffer.
ApiQuotaResetDate(nowMoment) ==
    LET pstCurrentDateTime == nowMoment - Hours(PstOffsetHours)
        pstEndDateTime == EndOfDay(pstCurrentDateTime)
    IN  nowMoment
        + Seconds(DiffSeconds(pstEndDateTime, pstCurrentDateTime) + extraBufferSeconds)
\* Mutant: the continuation token is dropped with the quota error.
QuotaExceededState_Restart(st, nowMoment) ==
    [st EXCEPT !.poll_interval_sec = QuotaPollInterval,
               !.apiQuotaResetDate = ApiQuotaResetDate(nowMoment),
               !.nextPage = Null]
\* Mutant: the cooldown is not written to the state.
QuotaExceededState_NoCooldown(st, nowMoment) ==
    [st EXCEPT !.apiQuotaResetDate = ApiQuotaResetDate(nowMoment)]
\* The state object after the catch handler has written to it.
QuotaExceededState(st, nowMoment) ==
    [st EXCEPT !.poll_interval_sec = QuotaPollInterval,
               !.apiQuotaResetDate = ApiQuotaResetDate(nowMoment)]
\* error.errors[0].reason throws a TypeError when errors or errors[0] is missing.
ReasonThrows(error) == ~error.hasErrors \/ Len(error.errors) = 0
IsDailyLimitExceeded(error) ==
    ~ReasonThrows(error) /\ error.errors[1] = "dailyLimitExceeded"
\* What the catch handler does with the rejection.
CatchOutcome(error, st, nowMoment) ==
    IF ReasonThrows(error)
        THEN [path |-> "typeError", error |-> NoError, logs |-> <<>>,
              state |-> NoState, delay |-> 0]
    ELSE IF IsDailyLimitExceeded(error)
        THEN [path |-> "quotaExceeded", error |-> NoError, logs |-> <<>>,
              state |-> QuotaExceededState(st, nowMoment),
              delay |-> QuotaExceededState(st, nowMoment).poll_interval_sec]
    ELSE [path |-> "error", error |-> error, logs |-> <<>>,
          state |-> NoState, delay |-> 0]

\* The .catch handler: the promise rejected with error.
ListEventsRejected(error) ==
    /\ pc = "fetching"
    /\ cb' = CatchOutcome(error, state, now)
    /\ state' = IF cb'.path = "quotaExceeded" THEN cb'.state ELSE state
    /\ pc' = "ready"
    /\ params' = NoParams
    /\ fetch' = NoFetch
    /\ UNCHANGED <<now, ticks, invocations, env, upstream, pollInterval, initialStates,
                   initialDelay, calls>>

Next ==
    \/ \E d \in Steps : Tick(d)
    \/ PawsInitCollectionState
    \/ \E i \in 1..Len(initialStates) : HostSelect(i)
    \/ PawsGetLogs
    \/ \E a \in Accumulators, t \in PageTokens \cup {Undefined} : ListEventsResolved(a, t)
    \/ \E e \in RejectErrors : ListEventsRejected(e)

Spec == Init /\ [][Next]_vars
\* The same collector under configurations that may be malformed.
SpecConfig == InitConfig /\ [][Next]_vars

\* The promise of the page loop settles: its .then or .catch handler runs.
ListEventsSettled ==
    /\ fetch.status = "resolved"
    /\ ListEventsResolved(fetch.accumulator, fetch.nextPage)
ListEventsFailed ==
    /\ fetch.status = "rejected"
    /\ ListEventsRejected(fetch.error)
\* The collector with the page loop of listEvents, at a fixed clock.
NextFetch ==
    \/ PawsInitCollectionState
    \/ \E i \in 1..Len(initialStates) : HostSelect(i)
    \/ PawsGetLogs
    \/ \E items \in PageItems, t \in PageTokens \cup {Undefined} : FetchPage(items, t)
    \/ \E e \in RejectErrors : FetchPageFails(e)
    \/ ListEventsSettled
    \/ ListEventsFailed
SpecFetch == InitFetch /\ [][NextFetch]_vars

\* --------------------------------------------- the collector that runs on
\* The clock reading the epoch is moved back to between two invocations.
Horizon == StartClock
ShiftTs(ts, d) == IF IsValidTs(ts) THEN ts - d ELSE ts
ShiftState(st, d) ==
    [st EXCEPT !.since = ShiftTs(st.since, d), !.until = ShiftTs(st.until, d),
               !.apiQuotaResetDate = ShiftTs(st.apiQuotaResetDate, d)]
\* The collector reads timestamps only through differences and comparisons
\* (diff, isAfter, add), so moving the epoch between two invocations changes
\* none of its decisions; it keeps the clock of an endless run bounded. The
\* configuration and the initial states are not read again once the host holds
\* a state, and stay as they were written.
Rebase ==
    /\ pc = "ready"
    /\ now > Horizon
    /\ state.since >= now - Horizon
    /\ now' = Horizon
    /\ state' = ShiftState(state, now - Horizon)
    /\ cb' = [cb EXCEPT !.state = ShiftState(cb.state, now - Horizon)]
    /\ UNCHANGED <<ticks, invocations, env, upstream, pollInterval, pc, initialStates,
                   initialDelay, params, calls, fetch>>
\* The delay the host was last handed.
ReturnedDelay == IF cb = NoCallback THEN initialDelay ELSE cb.delay
\* The host re-invokes pawsGetLogs once the returned delay has passed.
HostReinvokes ==
    /\ pc = "ready"
    /\ now <= Horizon
    /\ now' = now + Seconds(ReturnedDelay)
    /\ Invoke(now')
    /\ UNCHANGED <<ticks, invocations>>
\* The token the upstream returns with the page asked for by sent: a window
\* of n pages hands out "p1", "p2", ... and no token with its last page.
UpstreamToken(sent, n) ==
    LET page == IF sent = "p1" THEN 2 ELSE IF sent = "p2" THEN 3 ELSE 1
    IN  IF page >= n THEN Undefined ELSE IF page = 1 THEN "p1" ELSE "p2"
\* The upstream answers the page call after its latency.
UpstreamAnswers(items) ==
    /\ pc = "fetching"
    /\ fetch.status = "running"
    /\ now' = now + upstream.latency
    /\ fetch' = FetchedPage(fetch, items, UpstreamToken(fetch.pageToken, upstream.pages))
    /\ UNCHANGED <<ticks, invocations, env, upstream, pollInterval, pc, initialStates,
                   initialDelay, state, params, calls, cb>>
\* No quota errors, no fetch failures; the host goes on invoking.
NextLive ==
    \/ PawsInitCollectionState
    \/ \E i \in 1..Len(initialStates) : HostSelect(i)
    \/ HostReinvokes
    \/ \E items \in LivePageItems : UpstreamAnswers(items)
    \/ ListEventsSettled
    \/ Rebase
SpecLive ==
    /\ InitLive
    /\ [][NextLive]_vars
    /\ WF_vars(PawsInitCollectionState)
    /\ WF_vars(\E i \in 1..Len(initialStates) : HostSelect(i))
    /\ WF_vars(HostReinvokes)
    /\ WF_vars(\E items \in LivePageItems : UpstreamAnswers(items))
    /\ WF_vars(ListEventsSettled)
    /\ WF_vars(Rebase)

\* ------------------------------------------------------------- properties
\* The steps the properties are about.
DrainedStep == \E a \in Accumulators : ListEventsResolved(a, Undefined)
IsDailyLimit(e) ==
    e.hasErrors /\ Len(e.errors) > 0 /\ e.errors[1] = "dailyLimitExceeded"
QuotaExceededStep == \E e \in RejectErrors : IsDailyLimit(e) /\ ListEventsRejected(e)
QuotaStillInEffect == state.apiQuotaResetDate # NullTs /\ now < state.apiQuotaResetDate
Started == pc \in {"ready", "fetching"}
Earlier(a, b) == IF a < b THEN a ELSE b
Later(a, b) == IF a > b THEN a ELSE b
\* The catch-up width of the specification, in ms.
WidthFor(behindHours, interval) ==
    IF behindHours > 24 THEN Hours(24)
    ELSE IF behindHours > 1 THEN Hours(1)
    ELSE Seconds(interval)
DrainedCallback == cb.path = "then" /\ cb.state.nextPage = Undefined

\* C1: when the fetch resolves with a continuation token T, the next state is
\* the input state with nextPage = T, the quota reset date cleared and a poll
\* interval of 1; the callback gets the fetched records, that state and delay 1.
C1_MorePagesPending ==
    [][\A a \in Accumulators, t \in PageTokens :
          ListEventsResolved(a, t) =>
              /\ state' = [state EXCEPT !.nextPage = t,
                                        !.apiQuotaResetDate = NullTs,
                                        !.poll_interval_sec = 1]
              /\ cb'.path = "then"
              /\ cb'.state = state'
              /\ cb'.logs = a
              /\ cb'.delay = 1]_vars
\* A page token was returned to a state that carried a quota reset date.
C1_Witness ==
    /\ cb.path = "then"
    /\ cb.state.nextPage \in PageTokens
    /\ cb.delay = 1
    /\ invocations >= 2
    /\ state = cb.state

\* C2 (as stated): on a drained window the next since is the later of the
\* previous until and now, and the next until is that plus the width.
C2_Original ==
    [][DrainedStep =>
          LET drainedUntil == Later(state.until, now)
          IN  /\ state'.since = drainedUntil
              /\ state'.until =
                     drainedUntil + WidthFor((now - drainedUntil) \div Hours(1), pollInterval)]_vars
\* C2 (amended): on a drained window the next since is the earlier of the
\* previous until and now, and the next until is that plus the width; from
\* {since: D0, until: D0+60s}, poll interval 60, at D0+65s the next state is
\* since = D0+60s, until = D0+120s, delay 60.
C2_DrainedWindow ==
    [][DrainedStep =>
          LET drainedUntil == Earlier(state.until, now)
          IN  /\ state'.since = drainedUntil
              /\ state'.until =
                     drainedUntil + WidthFor((now - drainedUntil) \div Hours(1), pollInterval)
              /\ (/\ state.until = state.since + Seconds(60)
                  /\ pollInterval = 60
                  /\ now = state.since + Seconds(65))
                 => /\ state'.since = state.since + Seconds(60)
                    /\ state'.until = state.since + Seconds(120)
                    /\ cb'.delay = 60]_vars
\* The scenario: the window [D0, D0+60s) was drained at D0+65s.
C2_Witness ==
    /\ DrainedCallback
    /\ invocations = 1
    /\ pollInterval = 60
    /\ env.start_ts = StartClock - Seconds(65)
    /\ now = StartClock
    /\ state.since = StartClock - Seconds(5)
    /\ state.until = StartClock + Seconds(55)
    /\ cb.delay = 60

\* C3: on a drained window, with behindHours the whole hours from the next
\* since to now, the next width is 24h if behindHours > 24, else 1h if
\* behindHours > 1, else the poll interval; it is never more than 24h.
C3_CatchUpWidth ==
    [][DrainedStep =>
          LET behindHours == (now - state'.since) \div Hours(1)
              width == state'.until - state'.since
          IN  /\ state'.since <= now
              /\ width = WidthFor(behindHours, pollInterval)
              /\ width <= Hours(24)]_vars
\* The window [D0, D0+60s) was drained at D0+30h: the next window is 24h wide.
C3_Witness ==
    /\ DrainedCallback
    /\ invocations = 1
    /\ env.start_ts = StartClock - Hours(30)
    /\ now = StartClock
    /\ state.until - state.since = Hours(24)

\* C4 (as stated): on a drained window the delay is 1 if now minus the new
\* until exceeds the poll interval, and the poll interval otherwise.
C4_Original ==
    [][DrainedStep =>
          /\ cb'.delay = state'.poll_interval_sec
          /\ cb'.delay = IF now - state'.until > Seconds(pollInterval)
                            THEN 1 ELSE pollInterval]_vars
\* C4 (amended): on a drained window the delay, which is the next state's
\* poll interval, is 1 if the whole seconds from the new until to now exceed
\* the poll interval (now - until >= pollInterval + 1 s), and the poll
\* interval otherwise.
C4_DrainedDelay ==
    [][DrainedStep =>
          /\ cb'.delay = state'.poll_interval_sec
          /\ cb'.delay = IF now - state'.until >= Seconds(pollInterval + 1)
                            THEN 1 ELSE pollInterval]_vars
\* A drained window whose new until lies half a second more than the poll
\* interval in the past: the delay is the poll interval.
C4_Witness ==
    /\ DrainedCallback
    /\ now - state.until = Seconds(pollInterval) + 500
    /\ cb.delay = pollInterval

\* C5: an invocation on a state whose quota reset date is set and later than
\* now issues no listEvents call and hands the callback no records, the
\* input state unchanged and the state's poll interval as delay.
C5_QuotaStillInEffect ==
    [][(PawsGetLogs /\ QuotaStillInEffect) =>
          /\ pc' = "ready"
          /\ calls' = 0
          /\ params' = NoParams
          /\ cb'.path = "quotaInEffect"
          /\ cb'.logs = <<>>
          /\ cb'.state = state
          /\ cb'.delay = state.poll_interval_sec
          /\ state' = state]_vars
\* An invocation was skipped because the quota had not been reset yet.
C5_Witness ==
    /\ cb.path = "quotaInEffect"
    /\ calls = 0
    /\ pc = "ready"
    /\ now < state.apiQuotaResetDate

\* C6: when the fetch fails with dailyLimitExceeded the callback is called
\* without an error, with no records, with a state whose since and until are
\* the input's, whose poll interval is 900 and whose quota reset date is
\* set, and with delay 900.
C6_QuotaJustExceeded ==
    [][QuotaExceededStep =>
          /\ cb'.path = "quotaExceeded"
          /\ cb'.error = NoError
          /\ cb'.logs = <<>>
          /\ cb'.state.since = state.since
          /\ cb'.state.until = state.until
          /\ cb'.state.poll_interval_sec = 900
          /\ cb'.state.apiQuotaResetDate # NullTs
          /\ cb'.delay = 900
          /\ state' = cb'.state]_vars
\* A fetch failed with dailyLimitExceeded.
C6_Witness ==
    /\ cb.path = "quotaExceeded"
    /\ state.poll_interval_sec = 900
    /\ state.apiQuotaResetDate # NullTs

\* C7: a quota failure at time T gives a quota reset date later than T, and
\* as long as now is before the reset date every step keeps since, until and
\* the reset date, makes no listEvents call and hands over no records.
C7_QuotaRoundTrip ==
    [][/\ QuotaExceededStep => state'.apiQuotaResetDate > now
       /\ QuotaStillInEffect => pc = "ready"
       /\ (Started /\ QuotaStillInEffect /\ now' < state.apiQuotaResetDate) =>
              /\ state'.since = state.since
              /\ state'.until = state.until
              /\ state'.apiQuotaResetDate = state.apiQuotaResetDate
              /\ pc' = "ready"
              /\ cb' # cb => (cb'.logs = <<>> /\ cb'.state = state)]_vars
\* After a quota failure a later invocation found the quota still in effect.
C7_Witness ==
    /\ cb.path = "quotaInEffect"
    /\ invocations >= 2
    /\ ticks >= 1
    /\ state.poll_interval_sec = 900
    /\ now < state.apiQuotaResetDate

\* C8 (as stated): from any initial state, since and until never decrease
\* from one persisted state to the next.
C8_Original ==
    [][Started => /\ state'.since >= state.since
                  /\ state'.until >= state.until]_vars
\* C8 (amended): initialization with no configured start timestamp, or with
\* one not later than now, gives since <= now; and from every state with
\* since <= now, since and until never decrease and since stays <= now.
C8_Monotonicity ==
    [][/\ (PawsInitCollectionState /\ (env.start_ts = NoStartTs \/ env.start_ts <= now)) =>
              \A i \in 1..Len(initialStates') : initialStates'[i].since <= now
       /\ (Started /\ state.since <= now) =>
              /\ state'.since >= state.since
              /\ state'.until >= state.until
              /\ state'.since <= now']_vars
\* Two windows were drained after a start 30 hours in the past.
C8_Witness ==
    /\ DrainedCallback
    /\ invocations >= 2
    /\ env.start_ts = StartClock - Hours(30)
    /\ state.since > env.start_ts + Hours(24)

\* C9: initialization hands over one state per configured application, in
\* order, each with since = startTs (the configured timestamp, or now minus
\* five minutes), until = startTs + pollInterval seconds, nextPage null,
\* quota reset date null and poll interval 1, and a delay of 1.
C9_Initialization ==
    [][PawsInitCollectionState =>
          LET startTs == IF env.start_ts = NoStartTs
                            THEN now - Minutes(5) ELSE env.start_ts
          IN  /\ Len(initialStates') = Len(env.applicationNames)
              /\ \A i \in 1..Len(env.applicationNames) :
                     initialStates'[i] =
                         [application |-> env.applicationNames[i],
                          since |-> startTs,
                          until |-> startTs + Seconds(pollInterval),
                          nextPage |-> Null,
                          apiQuotaResetDate |-> NullTs,
                          poll_interval_sec |-> 1]
              /\ initialDelay' = 1]_vars
\* Three applications were initialised with the default start.
C9_Witness ==
    /\ pc = "initialised"
    /\ Len(initialStates) = 3
    /\ env.start_ts = NoStartTs
    /\ initialStates[2].application = "drive"
    /\ initialDelay = 1

\* C10: when the fetch fails with anything but dailyLimitExceeded, the
\* callback is called once with that error, with no records and no state,
\* and the input state is left as it was.
C10_NonQuotaFailure ==
    [][\A e \in RejectErrors :
          (ListEventsRejected(e) /\ ~IsDailyLimit(e)) =>
              /\ cb'.path = "error"
              /\ cb'.error = e
              /\ cb'.logs = <<>>
              /\ cb'.state = NoState
              /\ state' = state]_vars

\* C11: with an unparsable start timestamp or a malformed application list
\* initialization produces no collection state at all: none is handed to the
\* callback and none reaches the host.
C11_ConfigFailure ==
    (env.start_ts = InvalidStartTs \/ ~env.names_ok) =>
        /\ initialStates = <<>>
        /\ state = NoState

\* The items of the pages fetched so far, in the order they were fetched.
RECURSIVE Flatten(_)
Flatten(pages) ==
    IF pages = <<>> THEN <<>>
    ELSE Flatten(SubSeq(pages, 1, Len(pages) - 1)) \o pages[Len(pages)].items
\* C12: with B the page budget (1 when it is zero or unset), a listEvents call
\* makes at most B page calls; it goes on only after a page that returned a
\* token; it resolves without a token exactly when its last page returned
\* none, and with the last token exactly when the B-th page returned one; the
\* accumulator is the concatenation of the pages; and with B = 3, tokens on
\* pages 1 and 2 and none on page 3 it makes 3 calls and resolves with all
\* items and no token.
C12_PaginatedFetchBound ==
    LET B == IF env.max_pages = 0 THEN 1 ELSE env.max_pages
        n == fetch.pageCount
    IN  fetch.status \in {"running", "resolved"} =>
            /\ n <= B
            /\ n = Len(fetch.pages)
            /\ \A k \in 1..(n - 1) : fetch.pages[k].token # Undefined
            /\ fetch.status = "running" =>
                   /\ n < B
                   /\ n > 0 => fetch.pages[n].token # Undefined
            /\ fetch.status = "resolved" =>
                   /\ n >= 1
                   /\ fetch.accumulator = Flatten(fetch.pages)
                   /\ fetch.nextPage = fetch.pages[n].token
                   /\ fetch.nextPage # Undefined => n = B
\* Budget 3: pages 1 and 2 came with a token, page 3 without; three calls,
\* every item, no continuation token.
C12_Witness ==
    /\ env.max_pages = 3
    /\ fetch.status = "resolved"
    /\ fetch.pageCount = 3
    /\ fetch.nextPage = Undefined
    /\ fetch.accumulator = <<"e1", "e2", "e3", "e1">>

\* The collector tracks real time: the last invocation drained its window and
\* handed back the configured poll interval as the delay.
CaughtUp == DrainedCallback /\ cb.delay = pollInterval
\* A window is drained in less time than the configured poll interval: each
\* of its pages costs the one-second delay and the upstream's latency.
WindowDrainTime(u) == u.pages * (Seconds(NextPagePollInterval) + u.latency)
DrainsInTime ==
    upstream \in {u \in Upstreams : WindowDrainTime(u) < Seconds(pollInterval)}
\* C13 as stated: without quota errors and fetch failures, every window
\* draining after finitely many pages and the host re-invoking after each
\* returned delay, eventually an invocation returns a drained state whose
\* delay is the configured poll interval.
C13_Original == Started ~> CaughtUp
\* C13: the same, provided every window is drained (all its pages, with the
\* delays between them) in less time than the configured poll interval.
C13_EventualRealTime == (DrainsInTime /\ Started) ~> CaughtUp
\* Thirty hours behind at the start, and caught up.
C13_Witness ==
    /\ CaughtUp
    /\ DrainsInTime
    /\ env.start_ts = StartClock - Hours(30)

\* C14: in every state reachable from initialization the window is well
\* formed: since and until are timestamps, and since <= until.
C14_WindowWellFormed ==
    Started =>
        /\ IsValidTs(state.since)
        /\ IsValidTs(state.until)
        /\ state.since <= state.until

\* C15: since and until of the persisted state change only in an invocation
\* whose fetch succeeded and ended with no continuation token; an invocation
\* that ends with a token, a quota error, quota still in effect or a failure
\* leaves both as they were.
C15_PaginationBeforeWindowMoves ==
    [][(Started /\ (state'.since # state.since \/ state'.until # state.until))
          => DrainedStep]_vars
\* A more-pages invocation and then a quota error: the state carries the
\* token, and its window is still the initial one.
C15_Witness ==
    /\ cb.path = "quotaExceeded"
    /\ state.nextPage \in PageTokens
    /\ \E i \in 1..Len(initialStates) :
          /\ state.since = initialStates[i].since
          /\ state.until = initialStates[i].until

\* C16: after a drained transition evaluated at now the next state's since is
\* not later than now, also when the previous until is later than now.
C16_NeverStartsInFuture ==
    [][DrainedStep => state'.since <= now]_vars
\* The configured start is an hour ahead: the drained window starts at now.
C16_Witness ==
    /\ env.start_ts = StartClock + Hours(1)
    /\ DrainedCallback
    /\ cb.state.since = now
    /\ cb.state.since < env.start_ts

\* C17: a drained outcome yields a state without continuation token and
\* without quota reset date, whatever the input state carried, and the
\* invocation that follows fetches the new window without a page token.
C17_DrainedClearsMarkers ==
    [][/\ DrainedStep =>
             /\ ~Truthy(state'.nextPage)
             /\ state'.apiQuotaResetDate = NullTs
             /\ cb'.state = state'
       /\ (PawsGetLogs /\ DrainedCallback) =>
             /\ pc' = "fetching"
             /\ params'.pageToken = Undefined
             /\ params'.startTime = cb.state.since
             /\ params'.endTime = cb.state.until]_vars
\* The fetch in flight belongs to an input state that carries a continuation
\* token and a quota reset date that has passed.
C17_Witness ==
    /\ pc = "fetching"
    /\ fetch.status = "running"
    /\ Truthy(state.nextPage)
    /\ state.apiQuotaResetDate # NullTs
    /\ state.apiQuotaResetDate <= now

\* The midnight of UTC-8 that follows t.
NextPstMidnight(t) == t - ((t - Hours(8)) % Hours(24)) + Hours(24)
\* C18: a quota error at a time T of whole seconds sets the reset date to the
\* upcoming midnight of UTC-8 after T plus 60 seconds, to within one second,
\* and T + 60s <= reset date <= T + 24h + 60s.
C18_QuotaResetTime ==
    [][(QuotaExceededStep /\ now % Seconds(1) = 0) =>
          LET reset == state'.apiQuotaResetDate
              boundary == NextPstMidnight(now) + Seconds(60)
          IN  /\ boundary - reset <= Seconds(1)
              /\ reset - boundary <= Seconds(1)
              /\ now + Seconds(60) <= reset
              /\ reset <= now + Hours(24) + Seconds(60)]_vars
\* The quota error arrives exactly at a midnight of UTC-8: the reset date is
\* a day and 59 seconds later.
C18_Witness ==
    /\ cb.path = "quotaExceeded"
    /\ now % Hours(24) = Hours(8)
    /\ state.apiQuotaResetDate = now + Hours(24) + Seconds(59)

\* C19: after a drained transition the next since is not later than the
\* previous until, and equals it whenever the previous until is not later
\* than now: consecutive windows leave no gap.
C19_NoCoverageGap ==
    [][DrainedStep =>
          /\ state'.since <= state.until
          /\ state.until <= now => state'.since = state.until]_vars
\* Two windows drained: the third starts where the second ended, which is
\* where the initial window started plus two windows.
C19_Witness ==
    /\ DrainedCallback
    /\ invocations = 2
    /\ state.since < now
    /\ \E i \in 1..Len(initialStates) :
          /\ state.since > initialStates[i].until
          /\ state.since <= initialStates[i].until + Hours(24)

\* C20: a quota error in an invocation whose input state carries a
\* continuation token P returns a state that still carries P and the same
\* window; every quota-in-effect invocation keeps them; and the first
\* invocation at or after the reset date fetches the same window with page
\* token P.
C20_QuotaKeepsResumePoint ==
    [][/\ QuotaExceededStep =>
             /\ state'.nextPage = state.nextPage
             /\ state'.since = state.since
             /\ state'.until = state.until
             /\ cb'.state = state'
       /\ (PawsGetLogs /\ QuotaStillInEffect) =>
             /\ pc' = "ready"
             /\ state' = state
             /\ cb'.state = state
       /\ (PawsGetLogs /\ state.apiQuotaResetDate # NullTs
                       /\ now >= state.apiQuotaResetDate) =>
             /\ pc' = "fetching"
             /\ Truthy(state.nextPage) => params'.pageToken = state.nextPage
             /\ params'.startTime = state.since
             /\ params'.endTime = state.until]_vars
\* A more-pages invocation, a quota error, and an invocation while the quota
\* is in effect: the state still carries the token and the initial window.
C20_Witness ==
    /\ cb.path = "quotaInEffect"
    /\ cb.state.nextPage \in PageTokens
    /\ state.nextPage = cb.state.nextPage
    /\ \E i \in 1..Len(initialStates) :
          /\ state.since = initialStates[i].since
          /\ state.until = initialStates[i].until
====
